---- MODULE Spec2Model ----
(***************************************************************************)
(* http-to-sentry-go: the ingestion-and-normalisation pipeline.            *)
(*                                                                         *)
(* Package main (src/main.go:1-476): handleIngest, handleFastly and their  *)
(* helpers.  Package fastly (src/main.go:492-761): Handler.HandleEvents    *)
(* and its helpers.  Go strings are TLA+ strings; TLC evaluates Len, \o    *)
(* and SubSeq on them, so the string functions below work character by     *)
(* character as the Go library functions do.                               *)
(***************************************************************************)
EXTENDS Integers, Sequences, FiniteSets, TLC

VARIABLES conn, call

vars == <<conn, call>>

(***************************************************************************)
(* Library string functions used by the source (package strings, strconv). *)
(***************************************************************************)

UpperChars == "ABCDEFGHIJKLMNOPQRSTUVWXYZ"
LowerChars == "abcdefghijklmnopqrstuvwxyz"
DigitChars == "0123456789"

CharAt(s, i) == SubSeq(s, i, i)

Rest(s) == SubSeq(s, 2, Len(s))

\* The index of character c in s, 0 when c does not occur.
IndexOfChar(c, s) ==
  LET hits == {i \in 1..Len(s) : CharAt(s, i) = c}
  IN IF hits = {} THEN 0 ELSE CHOOSE i \in hits : \A j \in hits : i <= j

LowerChar(c) ==
  LET Pick(i) == IF i = 0 THEN c ELSE CharAt(LowerChars, i)
  IN Pick(IndexOfChar(c, UpperChars))

UpperChar(c) ==
  LET Pick(i) == IF i = 0 THEN c ELSE CharAt(UpperChars, i)
  IN Pick(IndexOfChar(c, LowerChars))

\* strings.ToLower and strings.ToUpper map every character; the two halves of the
\* string are mapped one after the other.
RECURSIVE ToLower(_)
ToLower(s) ==
  IF s = "" THEN ""
  ELSE IF Len(s) = 1 THEN LowerChar(s)
  ELSE ToLower(SubSeq(s, 1, Len(s) \div 2)) \o ToLower(SubSeq(s, Len(s) \div 2 + 1, Len(s)))

RECURSIVE ToUpper(_)
ToUpper(s) ==
  IF s = "" THEN ""
  ELSE IF Len(s) = 1 THEN UpperChar(s)
  ELSE ToUpper(SubSeq(s, 1, Len(s) \div 2)) \o ToUpper(SubSeq(s, Len(s) \div 2 + 1, Len(s)))

\* unicode.IsSpace on the characters the inputs use.
IsSpace(c) == c \in {" ", "\t", "\n", "\r", "\f"}

\* s from its first character that is no space on.
TrimLeft(s) ==
  IF \A i \in 1..Len(s) : IsSpace(CharAt(s, i)) THEN ""
  ELSE SubSeq(s, CHOOSE i \in 1..Len(s) :
                   ~IsSpace(CharAt(s, i)) /\ \A j \in 1..(i - 1) : IsSpace(CharAt(s, j)),
              Len(s))

\* s up to its last character that is no space.
TrimRight(s) ==
  IF \A i \in 1..Len(s) : IsSpace(CharAt(s, i)) THEN ""
  ELSE SubSeq(s, 1, CHOOSE i \in 1..Len(s) :
                      ~IsSpace(CharAt(s, i)) /\ \A j \in (i + 1)..Len(s) : IsSpace(CharAt(s, j)))

TrimSpace(s) == TrimRight(TrimLeft(s))

HasPrefix(s, p) == Len(s) >= Len(p) /\ SubSeq(s, 1, Len(p)) = p

Contains(s, sub) ==
  \E i \in 1..(Len(s) - Len(sub) + 1) : SubSeq(s, i, i + Len(sub) - 1) = sub

RECURSIVE NatToStr(_)
NatToStr(n) ==
  IF n < 10 THEN CharAt(DigitChars, n + 1)
  ELSE NatToStr(n \div 10) \o CharAt(DigitChars, (n % 10) + 1)

Itoa(n) == IF n < 0 THEN "-" \o NatToStr(0 - n) ELSE NatToStr(n)

Min(a, b) == IF a < b THEN a ELSE b

(***************************************************************************)
(* The request body stream.  A stream holds the bytes the client sends     *)
(* (data), whether its Read fails (fails) once errAt bytes were delivered, *)
(* and the most bytes one Read returns (chunk).                            *)
(***************************************************************************)

\* Go's int and int64 wrap around on overflow.  The model's integers are 32 bits
\* wide, the widest TLC computes with: MaxInt64 stands for math.MaxInt64.
MaxInt64 == 2147483647

MinInt64 == (0 - MaxInt64) - 1

\* x + 1 on an int64.
Int64Inc(x) == IF x = MaxInt64 THEN MinInt64 ELSE x + 1

\* One (*http.body).Read of at most want bytes at offset pos:
\* [n: bytes returned, eof, err].
StreamRead(stream, pos, want) ==
  IF stream.fails /\ pos >= stream.errAt
  THEN [n |-> 0, eof |-> FALSE, err |-> TRUE]
  ELSE IF pos >= Len(stream.data)
  THEN [n |-> 0, eof |-> TRUE, err |-> FALSE]
  ELSE [n |-> Min(Min(want, stream.chunk),
                  (IF stream.fails THEN Min(Len(stream.data), stream.errAt)
                   ELSE Len(stream.data)) - pos),
        eof |-> FALSE, err |-> FALSE]

\* io.ReadAll(io.LimitReader(body, n)): the loop of Read calls.  LimitedReader.Read
\* answers EOF once n <= 0 and never asks the stream for more than n bytes; the
\* buffer io.ReadAll offers grows and is never the smaller of the two.
\* Result: [data, err, consumed: bytes taken from the stream].
RECURSIVE ReadAllLimited(_, _, _, _)
ReadAllLimited(stream, pos, n, buf) ==
  LET After(r) ==
        IF r.err THEN [data |-> buf, err |-> TRUE, consumed |-> pos]
        ELSE IF r.eof THEN [data |-> buf, err |-> FALSE, consumed |-> pos]
        ELSE ReadAllLimited(stream, pos + r.n, n - r.n,
                            buf \o SubSeq(stream.data, pos + 1, pos + r.n))
  IN IF n <= 0
     THEN [data |-> buf, err |-> FALSE, consumed |-> pos]
     ELSE After(StreamRead(stream, pos, n))

\* A bug a reader could have: a body of exactly the limit counts as too large.
readLimitedBodyOffByOne(stream, maxBytes) ==
  LET Result(limit, r) ==
        IF r.err
        THEN [body |-> "", tooLarge |-> FALSE, err |-> TRUE,
              consumed |-> r.consumed, closed |-> TRUE]
        ELSE IF Len(r.data) >= limit
        THEN [body |-> SubSeq(r.data, 1, limit), tooLarge |-> TRUE, err |-> FALSE,
              consumed |-> r.consumed, closed |-> TRUE]
        ELSE [body |-> r.data, tooLarge |-> FALSE, err |-> FALSE,
              consumed |-> r.consumed, closed |-> TRUE]
  IN Result(maxBytes, ReadAllLimited(stream, 0, Int64Inc(maxBytes), ""))

\* readLimitedBody (package main): (data, tooLarge, err) from io.LimitReader(body,
\* limit+1); the deferred Close always runs.
readLimitedBody(stream, maxBytes) ==
  LET Result(limit, r) ==
        IF r.err
        THEN [body |-> "", tooLarge |-> FALSE, err |-> TRUE,
              consumed |-> r.consumed, closed |-> TRUE]
        ELSE IF Len(r.data) > limit
        THEN [body |-> SubSeq(r.data, 1, limit), tooLarge |-> TRUE, err |-> FALSE,
              consumed |-> r.consumed, closed |-> TRUE]
        ELSE [body |-> r.data, tooLarge |-> FALSE, err |-> FALSE,
              consumed |-> r.consumed, closed |-> TRUE]
  IN Result(maxBytes, ReadAllLimited(stream, 0, Int64Inc(maxBytes), ""))

\* readLimitedBody (package fastly).
fastly_readLimitedBody(stream, maxBytes) ==
  LET Result(limit, r) ==
        IF r.err
        THEN [body |-> "", tooLarge |-> FALSE, err |-> TRUE,
              consumed |-> r.consumed, closed |-> TRUE]
        ELSE IF Len(r.data) > limit
        THEN [body |-> SubSeq(r.data, 1, limit), tooLarge |-> TRUE, err |-> FALSE,
              consumed |-> r.consumed, closed |-> TRUE]
        ELSE [body |-> r.data, tooLarge |-> FALSE, err |-> FALSE,
              consumed |-> r.consumed, closed |-> TRUE]
  IN Result(maxBytes, ReadAllLimited(stream, 0, Int64Inc(maxBytes), ""))

(***************************************************************************)
(* encoding/json, as json.Unmarshal uses it: the text is first parsed as   *)
(* one JSON value (any syntax error rejects it before anything is stored), *)
(* and the value is then stored into the Go target.  The parser covers     *)
(* objects, arrays, strings without escapes, decimal numbers without       *)
(* exponent, true, false and null.                                         *)
(* JSON values: [k |-> "null"], [k |-> "bool", b], [k |-> "num", text,     *)
(* isInt], [k |-> "str", s], [k |-> "arr", elems], [k |-> "obj", members]  *)
(* with members a sequence of [key, val].                                  *)
(***************************************************************************)

JNull == [k |-> "null"]

At(s, i) == IF i >= 1 /\ i <= Len(s) THEN SubSeq(s, i, i) ELSE ""

IsJSONSpace(c) == c \in {" ", "\t", "\n", "\r"}

IsDigit(c) == c # "" /\ \E i \in 1..Len(DigitChars) : CharAt(DigitChars, i) = c

\* The first position from i on that holds no white space.
SkipWS(s, i) ==
  IF i > Len(s) THEN i
  ELSE CHOOSE j \in i..(Len(s) + 1) :
         ~IsJSONSpace(At(s, j)) /\ \A x \in i..(j - 1) : IsJSONSpace(At(s, x))

\* The first position from i on that holds no digit.
SkipDigits(s, i) ==
  IF i > Len(s) THEN i
  ELSE CHOOSE j \in i..(Len(s) + 1) :
         ~IsDigit(At(s, j)) /\ \A x \in i..(j - 1) : IsDigit(At(s, x))

ParseFail == [ok |-> FALSE, val |-> JNull, pos |-> 0]

\* The closing quote of the string that opens at i - 1; 0 when there is none or
\* the string holds an escape or a control character.
StringEnd(s, i) ==
  LET Stops(j) == At(s, j) \in {"\"", "\\", "\n", "\t", "\r", "\f"}
      Closes(j) == IF At(s, j) = "\"" THEN j ELSE 0
  IN IF \A j \in i..Len(s) : ~Stops(j) THEN 0
     ELSE Closes(CHOOSE j \in i..Len(s) : Stops(j) /\ \A x \in i..(j - 1) : ~Stops(x))

ParseString(s, i) ==
  LET Result(e) ==
        IF At(s, i) # "\"" \/ e = 0 THEN ParseFail
        ELSE [ok |-> TRUE, val |-> [k |-> "str", s |-> SubSeq(s, i + 1, e - 1)],
              pos |-> e + 1]
  IN Result(StringEnd(s, i + 1))

ParseNumber(s, i) ==
  LET Result(d, e, f) ==
        IF e = d \/ (At(s, d) = "0" /\ e > d + 1) \/ (At(s, e) = "." /\ f = e + 1)
           \/ At(s, f) \in {"e", "E"}
        THEN ParseFail
        ELSE [ok |-> TRUE,
              val |-> [k |-> "num", text |-> SubSeq(s, i, f - 1), isInt |-> (f = e)],
              pos |-> f]
      Fraction(d, e) ==
        Result(d, e, IF At(s, e) = "." THEN SkipDigits(s, e + 1) ELSE e)
      Digits(d) == Fraction(d, SkipDigits(s, d))
  IN Digits(IF At(s, i) = "-" THEN i + 1 ELSE i)

ParseLiteral(s, i) ==
  IF SubSeq(s, i, Min(Len(s), i + 3)) = "true"
  THEN [ok |-> TRUE, val |-> [k |-> "bool", b |-> TRUE], pos |-> i + 4]
  ELSE IF SubSeq(s, i, Min(Len(s), i + 4)) = "false"
  THEN [ok |-> TRUE, val |-> [k |-> "bool", b |-> FALSE], pos |-> i + 5]
  ELSE IF SubSeq(s, i, Min(Len(s), i + 3)) = "null"
  THEN [ok |-> TRUE, val |-> JNull, pos |-> i + 4]
  ELSE ParseFail

RECURSIVE ParseValue(_, _)
RECURSIVE ParseElems(_, _, _)
RECURSIVE ParseMembers(_, _, _)

\* The elements of an array from position i on, acc the ones parsed so far.
ParseElems(s, i, acc) ==
  LET Then(r, j) ==
        IF At(s, j) = "," THEN ParseElems(s, SkipWS(s, j + 1), Append(acc, r.val))
        ELSE IF At(s, j) = "]"
        THEN [ok |-> TRUE, val |-> [k |-> "arr", elems |-> Append(acc, r.val)],
              pos |-> j + 1]
        ELSE ParseFail
      Elem(r) == IF ~r.ok THEN ParseFail ELSE Then(r, SkipWS(s, r.pos))
  IN Elem(ParseValue(s, i))

\* The members of an object from position i on, acc the ones parsed so far.
ParseMembers(s, i, acc) ==
  LET Then(m, j) ==
        IF At(s, j) = "," THEN ParseMembers(s, SkipWS(s, j + 1), Append(acc, m))
        ELSE IF At(s, j) = "}"
        THEN [ok |-> TRUE, val |-> [k |-> "obj", members |-> Append(acc, m)],
              pos |-> j + 1]
        ELSE ParseFail
      Value(key, r) ==
        IF ~r.ok THEN ParseFail
        ELSE Then([key |-> key.val.s, val |-> r.val], SkipWS(s, r.pos))
      Colon(key, c) ==
        IF At(s, c) # ":" THEN ParseFail ELSE Value(key, ParseValue(s, SkipWS(s, c + 1)))
      Key(key) == IF ~key.ok THEN ParseFail ELSE Colon(key, SkipWS(s, key.pos))
  IN Key(ParseString(s, i))

ParseValue(s, i) ==
  LET Composite(c, j) ==
        IF c = "{"
        THEN IF At(s, j) = "}"
             THEN [ok |-> TRUE, val |-> [k |-> "obj", members |-> <<>>], pos |-> j + 1]
             ELSE ParseMembers(s, j, <<>>)
        ELSE IF At(s, j) = "]"
             THEN [ok |-> TRUE, val |-> [k |-> "arr", elems |-> <<>>], pos |-> j + 1]
             ELSE ParseElems(s, j, <<>>)
      Value(c) ==
        IF c \in {"{", "["} THEN Composite(c, SkipWS(s, i + 1))
        ELSE IF c = "\"" THEN ParseString(s, i)
        ELSE IF c = "-" \/ IsDigit(c) THEN ParseNumber(s, i)
        ELSE ParseLiteral(s, i)
  IN Value(At(s, i))

\* The whole text as one JSON value: [ok, val].  Text after the value is an error.
ParseJSON(s) ==
  LET Result(r) ==
        IF r.ok /\ SkipWS(s, r.pos) = Len(s) + 1
        THEN [ok |-> TRUE, val |-> r.val]
        ELSE [ok |-> FALSE, val |-> JNull]
  IN Result(ParseValue(s, SkipWS(s, 1)))

(***************************************************************************)
(* Storing a JSON value into a Go value (json.Unmarshal's decode step).    *)
(* A type mismatch is remembered as the error to return and decoding goes  *)
(* on with the next member; null leaves a string, int or bool alone and    *)
(* sets a map to nil; object keys match field names case-insensitively;    *)
(* unknown keys are skipped.  A Go map is [isNil, kv].                     *)
(***************************************************************************)

NilMap == [isNil |-> TRUE, kv |-> <<>>]

EmptyMap == [isNil |-> FALSE, kv |-> <<>>]

MapPut(m, key, val) ==
  [isNil |-> FALSE,
   kv |-> [x \in (DOMAIN m.kv) \cup {key} |-> IF x = key THEN val ELSE m.kv[x]]]

RECURSIVE StrToNat(_)
StrToNat(s) ==
  IF s = "" THEN 0
  ELSE 10 * StrToNat(SubSeq(s, 1, Len(s) - 1))
       + (CHOOSE d \in 0..9 : CharAt(DigitChars, d + 1) = CharAt(s, Len(s)))

Atoi(s) == IF At(s, 1) = "-" THEN 0 - StrToNat(Rest(s)) ELSE StrToNat(s)

\* map[string]string from the members of a JSON object; acc is [err, m].
RECURSIVE StoreStringMap(_, _, _)
StoreStringMap(members, i, acc) ==
  LET Store(mem) ==
        IF mem.val.k = "str"
        THEN [err |-> acc.err, m |-> MapPut(acc.m, mem.key, mem.val.s)]
        ELSE [err |-> acc.err \/ mem.val.k # "null", m |-> MapPut(acc.m, mem.key, "")]
  IN IF i > Len(members) THEN acc
     ELSE StoreStringMap(members, i + 1, Store(members[i]))

\* map[string]interface{} from the members of a JSON object.
RECURSIVE StoreAnyMap(_, _, _)
StoreAnyMap(members, i, m) ==
  IF i > Len(members) THEN m
  ELSE StoreAnyMap(members, i + 1, MapPut(m, members[i].key, members[i].val))

\* One object member stored into the struct acc.v; schema maps the lower-cased
\* JSON name to the Go field and its kind.
StoreField(acc, mem, schema) ==
  LET val == mem.val
      mismatch == [acc EXCEPT !.err = TRUE]
      Tags(go, r) == [err |-> acc.err \/ r.err, v |-> [acc.v EXCEPT ![go] = r.m]]
      Store(go, kind, old) ==
        IF val.k = "null"
        THEN IF kind \in {"string", "int", "bool"} THEN acc
             ELSE [acc EXCEPT !.v[go] = NilMap]
        ELSE IF kind = "string"
        THEN IF val.k = "str" THEN [acc EXCEPT !.v[go] = val.s] ELSE mismatch
        ELSE IF kind = "int"
        THEN IF val.k = "num" /\ val.isInt THEN [acc EXCEPT !.v[go] = Atoi(val.text)]
             ELSE mismatch
        ELSE IF kind = "bool"
        THEN IF val.k = "bool" THEN [acc EXCEPT !.v[go] = val.b] ELSE mismatch
        ELSE IF val.k # "obj" THEN mismatch
        ELSE IF kind = "map[string]string"
        THEN Tags(go, StoreStringMap(val.members, 1, [err |-> FALSE, m |-> old]))
        ELSE [acc EXCEPT !.v[go] = StoreAnyMap(val.members, 1, old)]
      Field(f) ==
        Store(f.go, f.kind,
              IF f.kind \in {"string", "int", "bool"} THEN NilMap
              ELSE IF acc.v[f.go].isNil THEN EmptyMap ELSE acc.v[f.go])
      Named(name) == IF name \notin DOMAIN schema THEN acc ELSE Field(schema[name])
  IN Named(ToLower(mem.key))

RECURSIVE StoreMembers(_, _, _, _)
StoreMembers(members, i, acc, schema) ==
  IF i > Len(members) THEN acc
  ELSE StoreMembers(members, i + 1, StoreField(acc, members[i], schema), schema)

\* A JSON value stored into a struct that starts as zero: [err, v].
StoreStruct(val, zero, schema) ==
  IF val.k = "null" THEN [err |-> FALSE, v |-> zero]
  ELSE IF val.k # "obj" THEN [err |-> TRUE, v |-> zero]
  ELSE StoreMembers(val.members, 1, [err |-> FALSE, v |-> zero], schema)

\* A JSON array stored into a slice of structs: [err, v].
RECURSIVE StoreStructs(_, _, _, _, _)
StoreStructs(elems, i, acc, zero, schema) ==
  LET Add(r) == [err |-> acc.err \/ r.err, v |-> Append(acc.v, r.v)]
  IN IF i > Len(elems) THEN acc
     ELSE StoreStructs(elems, i + 1, Add(StoreStruct(elems[i], zero, schema)),
                       zero, schema)

(***************************************************************************)
(* The payload and event types and their decoders.                         *)
(***************************************************************************)

\* type payload (its zero value) and its json tags.
ZeroPayload ==
  [Message |-> "", Level |-> "", Timestamp |-> "", Tags |-> NilMap, Extra |-> NilMap]

PayloadSchema ==
  [message |-> [go |-> "Message", kind |-> "string"],
   level |-> [go |-> "Level", kind |-> "string"],
   timestamp |-> [go |-> "Timestamp", kind |-> "string"],
   tags |-> [go |-> "Tags", kind |-> "map[string]string"],
   extra |-> [go |-> "Extra", kind |-> "map[string]interface{}"]]

\* type fastlyEvent (package main) and type Event (package fastly): the same fields.
ZeroFastlyEvent ==
  [Timestamp |-> "", ClientIP |-> "", GeoCountry |-> "", GeoCity |-> "", Host |-> "",
   URL |-> "", OriginalURL |-> "", RequestMethod |-> "", RequestProtocol |-> "",
   RequestReferer |-> "", RequestUserAgent |-> "", ResponseState |-> "",
   ResponseStatus |-> 0, ResponseReason |-> "", ResponseBodySize |-> 0,
   TLSClientJA3MD5 |-> "", FastlyServer |-> "", FastlyIsEdge |-> FALSE]

FastlyEventSchema ==
  [timestamp |-> [go |-> "Timestamp", kind |-> "string"],
   client_ip |-> [go |-> "ClientIP", kind |-> "string"],
   geo_country |-> [go |-> "GeoCountry", kind |-> "string"],
   geo_city |-> [go |-> "GeoCity", kind |-> "string"],
   host |-> [go |-> "Host", kind |-> "string"],
   url |-> [go |-> "URL", kind |-> "string"],
   original_url |-> [go |-> "OriginalURL", kind |-> "string"],
   request_method |-> [go |-> "RequestMethod", kind |-> "string"],
   request_protocol |-> [go |-> "RequestProtocol", kind |-> "string"],
   request_referer |-> [go |-> "RequestReferer", kind |-> "string"],
   request_user_agent |-> [go |-> "RequestUserAgent", kind |-> "string"],
   response_state |-> [go |-> "ResponseState", kind |-> "string"],
   response_status |-> [go |-> "ResponseStatus", kind |-> "int"],
   response_reason |-> [go |-> "ResponseReason", kind |-> "string"],
   response_body_size |-> [go |-> "ResponseBodySize", kind |-> "int"],
   tls_client_ja3_md5 |-> [go |-> "TLSClientJA3MD5", kind |-> "string"],
   fastly_server |-> [go |-> "FastlyServer", kind |-> "string"],
   fastly_is_edge |-> [go |-> "FastlyIsEdge", kind |-> "bool"]]

\* json.Unmarshal(body, &parsed) for a payload: [err, v], v as far as it was filled.
UnmarshalPayload(body) ==
  LET Store(p) ==
        IF ~p.ok THEN [err |-> TRUE, v |-> ZeroPayload]
        ELSE StoreStruct(p.val, ZeroPayload, PayloadSchema)
  IN Store(ParseJSON(body))

\* json.Unmarshal(body, &single) for one event.
UnmarshalEvent(body) ==
  LET Store(p) ==
        IF ~p.ok THEN [err |-> TRUE, v |-> ZeroFastlyEvent]
        ELSE StoreStruct(p.val, ZeroFastlyEvent, FastlyEventSchema)
  IN Store(ParseJSON(body))

\* json.Unmarshal(body, &multiple) for a slice of events (null gives a nil slice).
UnmarshalEvents(body) ==
  LET Store(p) ==
        IF ~p.ok THEN [err |-> TRUE, v |-> <<>>]
        ELSE IF p.val.k = "null" THEN [err |-> FALSE, v |-> <<>>]
        ELSE IF p.val.k # "arr" THEN [err |-> TRUE, v |-> <<>>]
        ELSE StoreStructs(p.val.elems, 1, [err |-> FALSE, v |-> <<>>],
                          ZeroFastlyEvent, FastlyEventSchema)
  IN Store(ParseJSON(body))

\* A bug a decoder could have: the payload is used as far as it was filled when
\* json.Unmarshal failed.
parsePayloadKeepingPartial(contentType, body) ==
  LET Result(u) == [v |-> u.v, ok |-> TRUE]
  IN IF ~Contains(contentType, "application/json")
     THEN [v |-> ZeroPayload, ok |-> FALSE]
     ELSE Result(UnmarshalPayload(body))

\* parsePayload: (payload, ok).  contentType arrives lower-cased from the caller.
parsePayload(contentType, body) ==
  LET Result(u) ==
        IF u.err THEN [v |-> ZeroPayload, ok |-> FALSE] ELSE [v |-> u.v, ok |-> TRUE]
  IN IF ~Contains(contentType, "application/json")
     THEN [v |-> ZeroPayload, ok |-> FALSE]
     ELSE Result(UnmarshalPayload(body))

\* A bug a decoder could have: the array is tried before the single object.
parseFastlyEventsArrayFirst(body) ==
  LET Second(single) ==
        IF ~single.err THEN [v |-> <<single.v>>, ok |-> TRUE]
        ELSE [v |-> <<>>, ok |-> FALSE]
      First(multiple) ==
        IF ~multiple.err THEN [v |-> multiple.v, ok |-> TRUE]
        ELSE Second(UnmarshalEvent(body))
  IN First(UnmarshalEvents(body))

\* parseFastlyEvents (package main): (events, ok), the single object tried first.
parseFastlyEvents(body) ==
  LET Second(multiple) ==
        IF ~multiple.err THEN [v |-> multiple.v, ok |-> TRUE]
        ELSE [v |-> <<>>, ok |-> FALSE]
      First(single) ==
        IF ~single.err THEN [v |-> <<single.v>>, ok |-> TRUE]
        ELSE Second(UnmarshalEvents(body))
  IN First(UnmarshalEvent(body))

\* parseEvents (package fastly).
fastly_parseEvents(body) ==
  LET Second(multiple) ==
        IF ~multiple.err THEN [v |-> multiple.v, ok |-> TRUE]
        ELSE [v |-> <<>>, ok |-> FALSE]
      First(single) ==
        IF ~single.err THEN [v |-> <<single.v>>, ok |-> TRUE]
        ELSE Second(UnmarshalEvents(body))
  IN First(UnmarshalEvent(body))

(***************************************************************************)
(* Severity.  sentry.Level is a string type; the five levels are its       *)
(* constants LevelDebug .. LevelFatal.                                     *)
(***************************************************************************)

LevelDebug == "debug"
LevelInfo == "info"
LevelWarning == "warning"
LevelError == "error"
LevelFatal == "fatal"

Levels == {LevelDebug, LevelInfo, LevelWarning, LevelError, LevelFatal}

\* A bug a classifier could have: the level string is compared as it came.
parseLevelAsGiven(level) ==
  LET Switch(l) ==
        IF l = "fatal" THEN LevelFatal
        ELSE IF l = "error" THEN LevelError
        ELSE IF l \in {"warning", "warn"} THEN LevelWarning
        ELSE IF l = "debug" THEN LevelDebug
        ELSE IF l \in {"info", ""} THEN LevelInfo
        ELSE LevelInfo
  IN Switch(level)

\* parseLevel: the switch on strings.ToLower(strings.TrimSpace(level)).
parseLevel(level) ==
  LET Switch(l) ==
        IF l = "fatal" THEN LevelFatal
        ELSE IF l = "error" THEN LevelError
        ELSE IF l \in {"warning", "warn"} THEN LevelWarning
        ELSE IF l = "debug" THEN LevelDebug
        ELSE IF l \in {"info", ""} THEN LevelInfo
        ELSE LevelInfo
  IN Switch(ToLower(TrimSpace(level)))

\* A bug a classifier could have: the status code is looked at before the outcome.
mapFastlyLevelStatusFirst(fe) ==
  LET Switch(state) ==
        IF fe.ResponseStatus >= 500 THEN LevelError
        ELSE IF fe.ResponseStatus >= 400 THEN LevelWarning
        ELSE IF state \in {"error", "fail", "failed"} THEN LevelError
        ELSE IF state \in {"warning", "warn"} THEN LevelWarning
        ELSE LevelInfo
  IN Switch(ToLower(TrimSpace(fe.ResponseState)))

\* mapFastlyLevel (package main).
mapFastlyLevel(fe) ==
  LET Switch(state) ==
        IF state \in {"error", "fail", "failed"} THEN LevelError
        ELSE IF state \in {"warning", "warn"} THEN LevelWarning
        ELSE IF fe.ResponseStatus >= 500 THEN LevelError
        ELSE IF fe.ResponseStatus >= 400 THEN LevelWarning
        ELSE LevelInfo
  IN Switch(ToLower(TrimSpace(fe.ResponseState)))

\* mapLevel (package fastly).
fastly_mapLevel(fe) ==
  LET Switch(state) ==
        IF state \in {"error", "fail", "failed"} THEN LevelError
        ELSE IF state \in {"warning", "warn"} THEN LevelWarning
        ELSE IF fe.ResponseStatus >= 500 THEN LevelError
        ELSE IF fe.ResponseStatus >= 400 THEN LevelWarning
        ELSE LevelInfo
  IN Switch(ToLower(TrimSpace(fe.ResponseState)))

(***************************************************************************)
(* Building the sentry event of an edge event.  A tag map is a function    *)
(* from tag names to values; a time is either a reading of the clock       *)
(* ([src |-> "now", tick]) or a parsed timestamp ([src |-> "parsed", text])*)
(***************************************************************************)

TagPut(tags, key, value) ==
  [x \in (DOMAIN tags) \cup {key} |-> IF x = key THEN value ELSE tags[x]]

\* addTag (package main).
addTag(tags, key, value) == IF value = "" THEN tags ELSE TagPut(tags, key, value)

\* addTag (package fastly).
fastly_addTag(tags, key, value) == IF value = "" THEN tags ELSE TagPut(tags, key, value)

\* buildFastlyMessage (package main): "FASTLY <STATE> <status>".
buildFastlyMessage(fe) ==
  LET Result(message) == IF message = "FASTLY" THEN "FASTLY" ELSE message
      Join(state, status) ==
        Result(TrimSpace("FASTLY " \o TrimSpace(state \o " " \o status)))
  IN Join(ToUpper(TrimSpace(fe.ResponseState)),
          IF fe.ResponseStatus # 0 THEN Itoa(fe.ResponseStatus) ELSE "")

\* titleCaseSimple (package fastly).
titleCaseSimple(value) ==
  LET Title(lower) == ToUpper(SubSeq(lower, 1, 1)) \o Rest(lower)
  IN IF value = "" THEN "" ELSE Title(ToLower(value))

\* buildMessage (package fastly): "HTTP::<State><status> (<reason>)".
fastly_buildMessage(fe) ==
  LET Result(message, reason) ==
        IF reason = "" THEN message ELSE message \o " (" \o reason \o ")"
      Message(joined) ==
        Result(IF joined = "HTTP::" THEN "HTTP" ELSE joined, TrimSpace(fe.ResponseReason))
  IN Message(TrimSpace("HTTP::" \o titleCaseSimple(TrimSpace(fe.ResponseState))
                       \o (IF fe.ResponseStatus # 0 THEN Itoa(fe.ResponseStatus) ELSE "")))

\* buildFastlyURL (package main).
buildFastlyURL(fe) ==
  LET Prefixed(path) == IF ~HasPrefix(path, "/") THEN "/" \o path ELSE path
  IN IF fe.Host = "" /\ fe.URL = "" THEN ""
     ELSE "https://" \o fe.Host \o Prefixed(IF fe.URL = "" THEN "/" ELSE fe.URL)

\* buildURL (package fastly).
fastly_buildURL(fe) ==
  LET Prefixed(path) == IF ~HasPrefix(path, "/") THEN "/" \o path ELSE path
  IN IF fe.Host = "" /\ fe.URL = "" THEN ""
     ELSE "https://" \o fe.Host \o Prefixed(IF fe.URL = "" THEN "/" ELSE fe.URL)

\* queryStringFromURL (both packages): url.Parse(raw).RawQuery, the text between
\* the first "?" and the fragment, for a raw URL that url.Parse accepts.
queryStringFromURL(raw) ==
  LET Query(s, q) == IF q = 0 THEN "" ELSE SubSeq(s, q + 1, Len(s))
      NoFragment(s) == Query(s, IndexOfChar("?", s))
      Cut(h) == NoFragment(IF h = 0 THEN raw ELSE SubSeq(raw, 1, h - 1))
  IN Cut(IndexOfChar("#", raw))

NoRequest == [set |-> FALSE]

NoUser == [IPAddress |-> ""]

\* event.Request, set when the event has a URL.
RequestContext(reqURL, fe) ==
  IF reqURL = "" THEN NoRequest
  ELSE [set |-> TRUE, URL |-> reqURL, Method |-> fe.RequestMethod,
        UserAgent |-> fe.RequestUserAgent, Referer |-> fe.RequestReferer,
        QueryString |-> queryStringFromURL(reqURL)]

ClockTime(tick) == [src |-> "now", tick |-> tick]

\* parseFastlyTimestamp: time.Parse with the layout "2006-01-02T15:04:05-0700".
parseFastlyTimestamp(ts) ==
  LET Digits(i, n) == \A j \in i..(i + n - 1) : IsDigit(At(ts, j))
      In(i, lo, hi) == Atoi(SubSeq(ts, i, i + 1)) \in lo..hi
  IN IF /\ Len(ts) = 24
        /\ SubSeq(ts, 5, 5) = "-" /\ SubSeq(ts, 8, 8) = "-" /\ SubSeq(ts, 11, 11) = "T"
        /\ SubSeq(ts, 14, 14) = ":" /\ SubSeq(ts, 17, 17) = ":"
        /\ SubSeq(ts, 20, 20) \in {"+", "-"}
        /\ \A f \in {<<1, 4>>, <<6, 2>>, <<9, 2>>, <<12, 2>>, <<15, 2>>, <<18, 2>>, <<21, 4>>} :
             Digits(f[1], f[2])
        /\ \A f \in {<<6, 1, 12>>, <<9, 1, 31>>, <<12, 0, 23>>, <<15, 0, 59>>,
                     <<18, 0, 59>>, <<21, 0, 23>>, <<23, 0, 59>>} : In(f[1], f[2], f[3])
     THEN [err |-> FALSE, t |-> [src |-> "parsed", text |-> ts]]
     ELSE [err |-> TRUE, t |-> ClockTime(0)]

\* A bug a translator could have: the message is the event's outcome alone.
FastlyEventMessageOfState(fe) == TrimSpace(fe.ResponseState)

\* The message of buildFastlySentryEvent's event (src/main.go:294-298).
FastlyEventMessage(fe) ==
  LET Or(message) == IF message = "" THEN "fastly event" ELSE message
  IN Or(buildFastlyMessage(fe))

\* The map literal of the five tags every edge event gets (both packages).
FastlyBaseTags(fe) ==
  [host |-> fe.Host, response_state |-> fe.ResponseState,
   request_method |-> fe.RequestMethod, request_protocol |-> fe.RequestProtocol,
   fastly_server |-> fe.FastlyServer]

\* buildFastlySentryEvent (package main); remoteAddr is r.RemoteAddr, tick the clock.
buildFastlySentryEvent(fe, remoteAddr, tick) ==
  LET Event(message, ts, tags, reqURL) ==
        [Logger |-> "fastly",
         Timestamp |-> IF ~ts.err THEN ts.t ELSE ClockTime(tick),
         Level |-> mapFastlyLevel(fe),
         Message |-> message,
         Tags |-> addTag(tags, "remote_addr", remoteAddr),
         Extra |-> [isNil |-> FALSE,
                    kv |-> [fastly |-> [k |-> "struct", v |-> fe],
                            fastly_timestamp |-> [k |-> "str", s |-> fe.Timestamp]]],
         Request |-> RequestContext(reqURL, fe),
         User |-> IF fe.ClientIP # "" THEN [IPAddress |-> fe.ClientIP] ELSE NoUser]
      IsEdge(tags) == IF fe.FastlyIsEdge THEN TagPut(tags, "fastly_is_edge", "true") ELSE tags
  IN Event(FastlyEventMessage(fe), parseFastlyTimestamp(fe.Timestamp),
           IsEdge(addTag(addTag(addTag(FastlyBaseTags(fe), "geo_country", fe.GeoCountry),
                                "geo_city", fe.GeoCity),
                         "tls_client_ja3_md5", fe.TLSClientJA3MD5)),
           buildFastlyURL(fe))

\* buildSentryEvent (package fastly): the timestamp stays the clock's.
fastly_buildSentryEvent(fe, remoteAddr, tick) ==
  LET Event(message, tags, reqURL) ==
        [Logger |-> "fastly",
         Timestamp |-> ClockTime(tick),
         Level |-> fastly_mapLevel(fe),
         Message |-> IF message = "" THEN "fastly event" ELSE message,
         Tags |-> fastly_addTag(tags, "remote_addr", remoteAddr),
         Extra |-> [isNil |-> FALSE,
                    kv |-> [fastly |-> [k |-> "struct", v |-> fe],
                            fastly_timestamp |-> [k |-> "str", s |-> fe.Timestamp]]],
         Request |-> RequestContext(reqURL, fe),
         User |-> IF fe.ClientIP # "" THEN [IPAddress |-> fe.ClientIP] ELSE NoUser]
      IsEdge(tags) == IF fe.FastlyIsEdge THEN TagPut(tags, "fastly_is_edge", "true") ELSE tags
  IN Event(fastly_buildMessage(fe),
           IsEdge(fastly_addTag(fastly_addTag(fastly_addTag(FastlyBaseTags(fe),
                      "geo_country", fe.GeoCountry), "geo_city", fe.GeoCity),
                      "tls_client_ja3_md5", fe.TLSClientJA3MD5)),
           fastly_buildURL(fe))

(***************************************************************************)
(* The event of the generic path (handleIngest, src/main.go:173-218).      *)
(***************************************************************************)

\* The range loop over parsedPayload.Tags: pairs with an empty key or value are skipped.
MergeTags(tags, ptags) ==
  LET keep == {key \in DOMAIN ptags.kv : key # "" /\ ptags.kv[key] # ""}
  IN [x \in (DOMAIN tags) \cup keep |-> IF x \in keep THEN ptags.kv[x] ELSE tags[x]]

\* A bug a handler could have: the payload's timestamp is not recorded.
IngestExtraWithoutTimestamp(parsedPayload) ==
  IF ~parsedPayload.Extra.isNil THEN parsedPayload.Extra ELSE EmptyMap

\* The extras of the event of a decoded payload (src/main.go:200-208);
\* sentry.NewEvent() starts Extra as an empty map.
IngestExtra(parsedPayload) ==
  LET Stamped(extra) ==
        IF parsedPayload.Timestamp # ""
        THEN MapPut(extra, "payload_timestamp", [k |-> "str", s |-> parsedPayload.Timestamp])
        ELSE extra
  IN Stamped(IF ~parsedPayload.Extra.isNil THEN parsedPayload.Extra ELSE EmptyMap)

\* The event handleIngest builds from the request r and the body it read;
\* sentry.NewEvent() starts Extra as an empty map.
IngestEvent(r, body, tick) ==
  LET baseTags == [remote_addr |-> r.remoteAddr, method |-> r.method, path |-> r.path]
      Parsed(parsedPayload, message) ==
        [Logger |-> "http",
         Timestamp |-> ClockTime(tick),
         Level |-> parseLevel(parsedPayload.Level),
         Message |-> IF message = "" THEN "(empty message)" ELSE message,
         Tags |-> IF ~parsedPayload.Tags.isNil
                  THEN MergeTags(baseTags, parsedPayload.Tags) ELSE baseTags,
         Extra |-> IngestExtra(parsedPayload),
         Request |-> NoRequest,
         User |-> NoUser]
      Unparsed ==
        [Logger |-> "http",
         Timestamp |-> ClockTime(tick),
         Level |-> LevelInfo,
         Message |-> IF body = "" THEN "(empty message)" ELSE body,
         Tags |-> baseTags,
         Extra |-> MapPut(EmptyMap, "raw", [k |-> "str", s |-> body]),
         Request |-> NoRequest,
         User |-> NoUser]
      Build(pp) ==
        IF pp.ok
        THEN Parsed(pp.v, IF pp.v.Message = "" THEN body ELSE pp.v.Message)
        ELSE Unparsed
  IN Build(parsePayload(ToLower(r.contentType), body))

(***************************************************************************)
(* The handlers.  A connection runs one handler at a time:                 *)
(*   pc        "idle", "capture" (the next step is a sink call), "done"    *)
(*   handler   the handler serving it                                      *)
(*   req       the request: method, contentType, remoteAddr, path, body    *)
(*   read      what readLimitedBody returned (called |-> FALSE before)     *)
(*   decodes   how many times a decoder was given the body                 *)
(*   events    the decoded edge events; event, the generic path's event    *)
(*   i         the index of the next edge event to submit                  *)
(*   eventIDs  the identifiers collected for the response                  *)
(*   captured  the events handed to the sink, returned what it answered    *)
(*   status    the status written (0 before), writes the WriteHeader calls *)
(*   ctype, respBody  the response's Content-Type and body                 *)
(*   tick      the clock, one tick per time.Now()                          *)
(***************************************************************************)

StatusAccepted == 202
StatusBadRequest == 400
StatusMethodNotAllowed == 405
StatusRequestEntityTooLarge == 413

\* The default of Handler.MaxBodyBytes.
DefaultMaxBodyBytes == 262144

Idle == [pc |-> "idle"]

NotRead == [called |-> FALSE]

NoEvent == [Logger |-> ""]

Started(handler, r, maxBodyBytes) ==
  [pc |-> "running", handler |-> handler, req |-> r, maxBodyBytes |-> maxBodyBytes,
   read |-> NotRead, decodes |-> 0, events |-> <<>>, event |-> NoEvent, i |-> 1,
   eventIDs |-> <<>>, captured |-> <<>>, returned |-> <<>>,
   status |-> 0, writes |-> 0, ctype |-> "", respBody |-> "", tick |-> 0]

\* w.WriteHeader(status) followed by return.
Respond(c, status) ==
  [c EXCEPT !.pc = "done", !.status = status, !.writes = @ + 1]

WithRead(c, rd) ==
  [c EXCEPT !.read = [called |-> TRUE, body |-> rd.body, tooLarge |-> rd.tooLarge,
                      err |-> rd.err, consumed |-> rd.consumed, closed |-> rd.closed]]

\* handleIngest up to its call of sentry.CaptureEvent (src/main.go:153-219).
handleIngestStart(r, maxBodyBytes) ==
  LET Read(c, rd) ==
        IF rd.err THEN Respond(c, StatusBadRequest)
        ELSE IF rd.tooLarge THEN Respond(c, StatusRequestEntityTooLarge)
        ELSE IF Len(rd.body) = 0 THEN Respond(c, StatusBadRequest)
        ELSE [c EXCEPT !.pc = "capture", !.decodes = 1,
                       !.event = IngestEvent(r, rd.body, c.tick), !.tick = @ + 1]
      Post(c, rd) == Read(WithRead(c, rd), rd)
      Handle(c) ==
        IF r.method # "POST" THEN Respond(c, StatusMethodNotAllowed)
        ELSE Post(c, readLimitedBody(r.body, maxBodyBytes))
  IN Handle(Started("handleIngest", r, maxBodyBytes))

\* A bug a handler could have: an empty identifier is reported like any other.
handleIngestFinishAnyID(c, ret) ==
  LET Answer(c1) ==
        IF ret.isNil THEN Respond(c1, StatusAccepted)
        ELSE [Respond(c1, StatusAccepted) EXCEPT
                !.ctype = "application/json",
                !.respBody = "{\"event_id\":\"" \o ret.id \o "\"}"]
  IN Answer([c EXCEPT !.captured = Append(@, c.event), !.returned = Append(@, ret)])

\* handleIngest from the return of sentry.CaptureEvent (src/main.go:220-234);
\* ret is the *EventID it returned.
handleIngestFinish(c, ret) ==
  LET Answer(c1) ==
        IF ret.isNil THEN Respond(c1, StatusAccepted)
        ELSE IF ret.id = "" THEN Respond(c1, StatusAccepted)
        ELSE [Respond(c1, StatusAccepted) EXCEPT
                !.ctype = "application/json",
                !.respBody = "{\"event_id\":\"" \o ret.id \o "\"}"]
  IN Answer([c EXCEPT !.captured = Append(@, c.event), !.returned = Append(@, ret)])

\* json.Marshal of a []string.
RECURSIVE MarshalStrings(_, _)
MarshalStrings(ids, i) ==
  IF i > Len(ids) THEN ""
  ELSE (IF i > 1 THEN "," ELSE "") \o "\"" \o ids[i] \o "\"" \o MarshalStrings(ids, i + 1)

\* json.Marshal(map[string]interface{}{"event_ids": eventIDs}).
MarshalEventIDs(ids) == "{\"event_ids\":[" \o MarshalStrings(ids, 1) \o "]}"

\* handleFastly up to its loop (src/main.go:237-263).
handleFastlyStart(r, maxBodyBytes) ==
  LET Decoded(c, parsed) ==
        IF ~parsed.ok \/ Len(parsed.v) = 0
        THEN Respond([c EXCEPT !.decodes = 1], StatusBadRequest)
        ELSE [c EXCEPT !.pc = "capture", !.decodes = 1, !.events = parsed.v]
      Read(c, rd) ==
        IF rd.err THEN Respond(c, StatusBadRequest)
        ELSE IF rd.tooLarge THEN Respond(c, StatusRequestEntityTooLarge)
        ELSE IF Len(rd.body) = 0 THEN Respond(c, StatusBadRequest)
        ELSE Decoded(c, parseFastlyEvents(rd.body))
      Post(c, rd) == Read(WithRead(c, rd), rd)
      Handle(c) ==
        IF r.method # "POST" THEN Respond(c, StatusMethodNotAllowed)
        ELSE Post(c, readLimitedBody(r.body, maxBodyBytes))
  IN Handle(Started("handleFastly", r, maxBodyBytes))

\* The ceiling HandleEvents reads with (src/main.go:540-543).
EffectiveMaxBytes(MaxBodyBytes) ==
  IF MaxBodyBytes <= 0 THEN DefaultMaxBodyBytes ELSE MaxBodyBytes

\* Handler.HandleEvents up to its loop (src/main.go:534-570).
HandleEventsStart(r, MaxBodyBytes) ==
  LET Decoded(c, parsed) ==
        IF ~parsed.ok \/ Len(parsed.v) = 0
        THEN Respond([c EXCEPT !.decodes = 1], StatusBadRequest)
        ELSE [c EXCEPT !.pc = "capture", !.decodes = 1, !.events = parsed.v]
      Read(c, rd) ==
        IF rd.err THEN Respond(c, StatusBadRequest)
        ELSE IF rd.tooLarge THEN Respond(c, StatusRequestEntityTooLarge)
        ELSE IF Len(rd.body) = 0 THEN Respond(c, StatusBadRequest)
        ELSE Decoded(c, fastly_parseEvents(rd.body))
      Post(c, rd) == Read(WithRead(c, rd), rd)
      Handle(c) ==
        IF r.method # "POST" THEN Respond(c, StatusMethodNotAllowed)
        ELSE Post(c, fastly_readLimitedBody(r.body, EffectiveMaxBytes(MaxBodyBytes)))
  IN Handle(Started("HandleEvents", r, MaxBodyBytes))

\* A bug a handler could have: a batch that got no identifier is answered 400.
RespondEventIDsOrReject(c) ==
  IF c.eventIDs = <<>> THEN Respond(c, StatusBadRequest)
  ELSE [Respond(c, StatusAccepted) EXCEPT
          !.ctype = "application/json", !.respBody = MarshalEventIDs(c.eventIDs)]

\* The end of both edge handlers (src/main.go:275-285, 582-592): json.Marshal of
\* a []string does not fail.
RespondEventIDs(c) ==
  [Respond(c, StatusAccepted) EXCEPT
     !.ctype = "application/json", !.respBody = MarshalEventIDs(c.eventIDs)]

\* A bug a loop could have: it ends at the first submission that returns nil.
LoopTurnEndingAtNil(c, event, ret) ==
  LET Turned(c1) ==
        IF ret.isNil \/ c1.i > Len(c1.events) THEN RespondEventIDs(c1) ELSE c1
  IN Turned([c EXCEPT !.captured = Append(@, event), !.returned = Append(@, ret),
                      !.tick = @ + 1, !.i = @ + 1,
                      !.eventIDs = IF ret.isNil THEN @
                                   ELSE IF ret.id # "" THEN Append(@, ret.id) ELSE @])

\* One turn of the loop of an edge handler: event is built from events[i], handed
\* to the sink, and ret is what the sink returned; after the last turn the
\* response is written.
LoopTurn(c, event, ret) ==
  LET Turned(c1) == IF c1.i > Len(c1.events) THEN RespondEventIDs(c1) ELSE c1
  IN Turned([c EXCEPT !.captured = Append(@, event), !.returned = Append(@, ret),
                      !.tick = @ + 1, !.i = @ + 1,
                      !.eventIDs = IF ret.isNil THEN @
                                   ELSE IF ret.id # "" THEN Append(@, ret.id) ELSE @])

\* handleFastly's loop (src/main.go:264-273).
handleFastlyTurn(c, ret) ==
  LoopTurn(c, buildFastlySentryEvent(c.events[c.i], c.req.remoteAddr, c.tick), ret)

\* HandleEvents' loop (src/main.go:571-580).
HandleEventsTurn(c, ret) ==
  LoopTurn(c, fastly_buildSentryEvent(c.events[c.i], c.req.remoteAddr, c.tick), ret)

(***************************************************************************)
(* The workload: the requests and configurations the model serves.         *)
(***************************************************************************)

\* Byte ceilings below every realistic one, to make bodies exceed them.
TinyLimit == 2
SmallLimit == 8
\* The floor loadConfig puts under HTTP_MAX_BODY_BYTES.
MinMaxBodyBytes == 1024
\* The most bytes one Read of a request stream returns.
ChunkSize == 64

Stream(data) == [data |-> data, fails |-> FALSE, errAt |-> 0, chunk |-> ChunkSize]

FailingStream(data, errAt) ==
  [data |-> data, fails |-> TRUE, errAt |-> errAt, chunk |-> ChunkSize]

Request(method, contentType, body) ==
  [method |-> method, contentType |-> contentType, remoteAddr |-> "192.0.2.1:1234",
   path |-> "/ingest", body |-> body]

ContentTypes ==
  {"", "text/plain", "application/json", "Application/JSON; charset=utf-8", "application/jso"}

TextBodies == {"hello", "plain text log line", " "}

PayloadBodies ==
  {"{\"message\":\"order failed\",\"level\":\"error\",\"tags\":{\"service\":\"checkout\"}}",
   "{\"message\":\"boom\",\"level\":\" WARN \",\"timestamp\":\"2026-01-29T12:34:56Z\",\"tags\":{\"a\":\"1\",\"b\":\"\",\"\":\"x\"},\"extra\":{\"x\":2}}",
   "{\"level\":\"fatal\"}",
   "{\"message\":\"\"}",
   "{\"Message\":\"upper\",\"unknown\":[1,true]}",
   "{\"tags\":{\"remote_addr\":\"spoofed\",\"method\":\"\",\"path\":\"/x\"}}",
   "{\"tags\":null,\"extra\":null,\"timestamp\":\"not a time\"}",
   "{\"tags\":{\"a\":null}}",
   "{\"tags\":{\"a\":\"1\"},\"extra\":{\"x\":2}}",
   "{\"timestamp\":\"t1\",\"extra\":{\"payload_timestamp\":\"mine\",\"x\":null}}",
   " {} ",
   "null"}

\* Bodies json.Unmarshal rejects for a payload: a type mismatch after a field
\* was stored, a value of the wrong kind, and syntax errors.
BadPayloadBodies ==
  {"{\"message\":\"m\",\"level\":5}",
   "{\"message\":\"m\",\"tags\":{\"a\":1}}",
   "[]",
   "\"text\"",
   "{\"message\":\"m\"",
   "{\"message\":\"m\"} x",
   "{bad"}

EventBodies ==
  {"{\"timestamp\":\"2026-01-29T11:41:12+0000\",\"response_state\":\"ERROR\",\"response_status\":503,\"response_reason\":\"origin timeout\"}",
   "{\"response_state\":\" warn \",\"response_status\":200,\"host\":\"h.io\",\"url\":\"a?x=1\",\"geo_country\":\"NL\",\"fastly_is_edge\":true,\"client_ip\":\"203.0.113.9\"}",
   "{}",
   "null",
   "[{\"response_status\":404,\"host\":\"h.io\",\"request_method\":\"GET\",\"request_protocol\":\"HTTP/2\",\"fastly_server\":\"cache-ams\"},{\"response_state\":\"fail\",\"timestamp\":\"2026-01-29T11:41:12+00:00\"},{\"geo_city\":\"Utrecht\",\"tls_client_ja3_md5\":\"abc\"}]",
   "[{\"host\":\"a\"},{\"host\":\"b\"}]",
   "[null]",
   " [ {\"response_reason\":\" gone \"} ] "}

\* Bodies that are no event and no array of events, and the empty array.
BadEventBodies ==
  {"[]",
   " [ ] ",
   "{\"response_status\":\"503\"}",
   "[{\"response_status\":1.5}]",
   "[{\"host\":\"a\"},5]",
   "[{\"host\":\"a\"}",
   "hello",
   "503"}

Methods == {"GET", "PUT", "HEAD", ""}

\* [handler, r, maxBodyBytes]: what one Serve step is given.
Job(handler, r, maxBodyBytes) == [handler |-> handler, r |-> r, maxBodyBytes |-> maxBodyBytes]

IngestJobs ==
  {Job("handleIngest", Request(m, "application/json", Stream("{\"message\":\"m\"}")),
       MinMaxBodyBytes) : m \in Methods}
  \cup {Job("handleIngest", Request("POST", ct, Stream(b)), MinMaxBodyBytes) :
          ct \in ContentTypes, b \in TextBodies \cup PayloadBodies \cup BadPayloadBodies}
  \cup {Job("handleIngest", Request("POST", ct, Stream(b)), lim) :
          ct \in {"text/plain", "application/json"},
          b \in {"", "{}", "{} ", "hello", "{\"message\":\"m\"}", "{\"level\":\"fatal\"}"},
          lim \in {0, TinyLimit, SmallLimit}}
  \cup {Job("handleIngest", Request("POST", ct, Stream(b)), MaxInt64) :
          ct \in {"text/plain", "application/json"}, b \in {"", "hello", "{\"message\":\"m\"}"}}
  \cup {Job("handleIngest", Request("POST", ct, FailingStream(b, e)), lim) :
          ct \in {"text/plain", "application/json"}, b \in {"{\"level\":\"fatal\"}"},
          e \in {0, TinyLimit, TinyLimit + 1, SmallLimit + 2},
          lim \in {TinyLimit, SmallLimit, MinMaxBodyBytes}}

EdgeJobs(handler) ==
  {Job(handler, Request(m, "application/json", Stream("{}")), MinMaxBodyBytes) :
     m \in Methods}
  \cup {Job(handler, Request("POST", ct, Stream(b)), MinMaxBodyBytes) :
          ct \in {"", "application/json"}, b \in EventBodies \cup BadEventBodies}
  \cup {Job(handler, Request("POST", "application/json", Stream(b)), lim) :
          b \in {"", "{}", "{} ", "[]", "hello", "[{\"host\":\"a\"},{\"host\":\"b\"}]"},
          lim \in {TinyLimit, SmallLimit}}
  \cup {Job(handler, Request("POST", "application/json", Stream(b)), MaxInt64) :
          b \in {"", "{}"}}
  \cup {Job(handler, Request("POST", "application/json", FailingStream(b, e)), lim) :
          b \in {"[{\"host\":\"a\"},{\"host\":\"b\"}]"},
          e \in {0, TinyLimit, TinyLimit + 1, SmallLimit + 2},
          lim \in {TinyLimit, SmallLimit, MinMaxBodyBytes}}

\* Handler{} and Handler{MaxBodyBytes: -1}: the default ceiling applies.
DefaultedJobs ==
  {Job("HandleEvents", Request("POST", "application/json", Stream(b)), lim) :
     b \in {"", "{}", "[]", "[{\"host\":\"a\"},{\"host\":\"b\"}]"}, lim \in {0, -1}}

\* What sentry.CaptureEvent (or Handler.Capture) returns: nil, or a pointer to an
\* identifier that may be empty.
SinkReturns ==
  {[isNil |-> TRUE, id |-> ""], [isNil |-> FALSE, id |-> ""],
   [isNil |-> FALSE, id |-> "a1"], [isNil |-> FALSE, id |-> "b2"]}

Conns == {"c1"}

NoCall == [fn |-> "none"]

(***************************************************************************)
(* The server: each connection serves one request after another.           *)
(***************************************************************************)

Init == conn = [s \in Conns |-> Idle] /\ call = NoCall

\* The mux hands a request to handleIngest.
ServeIngest(s) ==
  /\ conn[s].pc = "idle"
  /\ \E j \in IngestJobs :
       conn' = [conn EXCEPT ![s] = handleIngestStart(j.r, j.maxBodyBytes)]
  /\ UNCHANGED call

\* sentry.CaptureEvent returns to handleIngest, which writes the response.
CaptureIngest(s) ==
  /\ conn[s].pc = "capture" /\ conn[s].handler = "handleIngest"
  /\ \E ret \in SinkReturns : conn' = [conn EXCEPT ![s] = handleIngestFinish(conn[s], ret)]
  /\ UNCHANGED call

\* The mux hands a request to handleFastly.
ServeFastly(s) ==
  /\ conn[s].pc = "idle"
  /\ \E j \in EdgeJobs("handleFastly") :
       conn' = [conn EXCEPT ![s] = handleFastlyStart(j.r, j.maxBodyBytes)]
  /\ UNCHANGED call

\* One event of handleFastly's batch is built and captured.
CaptureFastly(s) ==
  /\ conn[s].pc = "capture" /\ conn[s].handler = "handleFastly"
  /\ \E ret \in SinkReturns : conn' = [conn EXCEPT ![s] = handleFastlyTurn(conn[s], ret)]
  /\ UNCHANGED call

\* A request reaches Handler.HandleEvents.
ServeEvents(s) ==
  /\ conn[s].pc = "idle"
  /\ \E j \in EdgeJobs("HandleEvents") \cup DefaultedJobs :
       conn' = [conn EXCEPT ![s] = HandleEventsStart(j.r, j.maxBodyBytes)]
  /\ UNCHANGED call

\* One event of HandleEvents' batch is built and captured.
CaptureEvents(s) ==
  /\ conn[s].pc = "capture" /\ conn[s].handler = "HandleEvents"
  /\ \E ret \in SinkReturns : conn' = [conn EXCEPT ![s] = HandleEventsTurn(conn[s], ret)]
  /\ UNCHANGED call

\* The handler has returned; the connection takes the next request.
Finish(s) ==
  /\ conn[s].pc = "done"
  /\ conn' = [conn EXCEPT ![s] = Idle]
  /\ UNCHANGED call

Next ==
  \E s \in Conns :
    \/ ServeIngest(s)
    \/ CaptureIngest(s)
    \/ ServeFastly(s)
    \/ CaptureFastly(s)
    \/ ServeEvents(s)
    \/ CaptureEvents(s)
    \/ Finish(s)

Spec == Init /\ [][Next]_vars

(***************************************************************************)
(* readLimitedBody on its own: every short body, failure point, read size  *)
(* and ceiling.                                                            *)
(***************************************************************************)

MaxLen == 4
MaxLimit == 4
MaxChunk == 2

Bytes == "abcdefghijklmnop"

ReadCalls ==
  {[fn |-> "readLimitedBody", pkg |-> "", done |-> FALSE, ret |-> NotRead,
    maxBytes |-> lim,
    stream |-> [data |-> SubSeq(Bytes, 1, n), fails |-> f, errAt |-> e, chunk |-> ch]] :
     n \in 0..MaxLen, f \in BOOLEAN, e \in 0..MaxLen, ch \in 1..MaxChunk,
     lim \in (0..MaxLimit) \cup {MaxInt64}}

InitRead == conn = [s \in Conns |-> Idle] /\ call \in ReadCalls

\* readLimitedBody of package main is called.
ReadMain ==
  /\ call.fn = "readLimitedBody" /\ ~call.done
  /\ call' = [call EXCEPT !.done = TRUE, !.pkg = "main",
                          !.ret = readLimitedBody(call.stream, call.maxBytes)]
  /\ UNCHANGED conn

\* readLimitedBody of package fastly is called.
ReadFastly ==
  /\ call.fn = "readLimitedBody" /\ ~call.done
  /\ call' = [call EXCEPT !.done = TRUE, !.pkg = "fastly",
                          !.ret = fastly_readLimitedBody(call.stream, call.maxBytes)]
  /\ UNCHANGED conn

NextRead == ReadMain \/ ReadFastly

SpecRead == InitRead /\ [][NextRead]_vars

(***************************************************************************)
(* parseLevel on its own: the level words and other strings, in four       *)
(* letter cases, with white space in front and behind.                     *)
(***************************************************************************)

LevelWords == {"fatal", "error", "warning", "warn", "debug", "info"}

OtherWords == {"", "critical", "err", "warnings", "war n", "trace", "inf", "0"}

Pads == {"", " ", "\t", "\n", "  ", " \r\n"}

\* Every second letter in upper case.
RECURSIVE Alternate(_)
Alternate(s) ==
  IF Len(s) < 2 THEN s
  ELSE CharAt(s, 1) \o ToUpper(CharAt(s, 2)) \o Alternate(SubSeq(s, 3, Len(s)))

LetterCases(w) == {w, ToUpper(w), titleCaseSimple(w), Alternate(w)}

LevelCallsOf(w) ==
  {[fn |-> "parseLevel", base |-> w, arg |-> l \o form \o r, done |-> FALSE, ret |-> ""] :
     form \in LetterCases(w), l \in Pads, r \in Pads}

LevelCalls == UNION {LevelCallsOf(w) : w \in LevelWords \cup OtherWords}

InitLevel == conn = [s \in Conns |-> Idle] /\ call \in LevelCalls

\* parseLevel is called.
ClassifyLevel ==
  /\ call.fn = "parseLevel" /\ ~call.done
  /\ call' = [call EXCEPT !.done = TRUE, !.ret = parseLevel(call.arg)]
  /\ UNCHANGED conn

NextLevel == ClassifyLevel

SpecLevel == InitLevel /\ [][NextLevel]_vars

(***************************************************************************)
(* The bounded reader's contract.                                          *)
(***************************************************************************)

\* C1: for every body and every limit >= 0, when the stream does not fail,
\* readLimitedBody returns the whole body and tooLarge = FALSE if the body is no
\* longer than the limit, and the first limit bytes and tooLarge = TRUE if it is
\* longer; it never returns more than limit bytes and never takes more than
\* limit + 1 bytes from the stream.
ReadLimitedBodyContract ==
  (call.fn = "readLimitedBody" /\ call.done /\ call.maxBytes >= 0) =>
    /\ Len(call.ret.body) <= call.maxBytes
    /\ call.ret.consumed - 1 <= call.maxBytes
    /\ ~call.ret.err =>
         IF Len(call.stream.data) <= call.maxBytes
         THEN call.ret.body = call.stream.data /\ ~call.ret.tooLarge
         ELSE /\ call.ret.body = SubSeq(call.stream.data, 1, call.maxBytes)
              /\ call.ret.tooLarge

\* The contract of C1 for the limits below the greatest int64.
ReadLimitedBodyContractBelowMax ==
  (call.fn = "readLimitedBody" /\ call.done /\ call.maxBytes < MaxInt64) =>
    ReadLimitedBodyContract

\* A call with the greatest limit on a body that is not empty has returned.
ReadAtMaxLimit ==
  /\ call.fn = "readLimitedBody" /\ call.done /\ ~call.ret.err
  /\ call.maxBytes = MaxInt64 /\ call.stream.data = "a"

(***************************************************************************)
(* The generic severity classifier.                                        *)
(***************************************************************************)

\* C10: parseLevel does not depend on the letter case of the level string or on
\* the white space around it, and answers for every string: fatal gives fatal,
\* error gives error, warning and warn give warning, debug gives debug, info and
\* the empty string give info, and every other string gives info; the result is
\* always one of the five severities.
ParseLevelCaseAndSpaceInvariant ==
  (call.fn = "parseLevel" /\ call.done) =>
    /\ call.ret \in Levels
    /\ call.ret = (CASE call.base = "fatal" -> "fatal"
                     [] call.base = "error" -> "error"
                     [] call.base \in {"warning", "warn"} -> "warning"
                     [] call.base = "debug" -> "debug"
                     [] OTHER -> "info")

\* "warn" in upper case between white space was classified as warning.
ParseLevelPaddedUpperWarn ==
  /\ call.fn = "parseLevel" /\ call.done
  /\ call.arg = " \r\nWARN\t" /\ call.ret = "warning"

(***************************************************************************)
(* The handlers' responses.  Ceiling(c) is the byte ceiling the handler of *)
(* connection record c reads with.                                         *)
(***************************************************************************)

Ceiling(c) ==
  IF c.handler = "HandleEvents" THEN EffectiveMaxBytes(c.maxBodyBytes) ELSE c.maxBodyBytes

\* C2: in handleIngest, handleFastly and HandleEvents the sink is called only for
\* a request that is answered 202: a request answered 405 (method other than
\* POST), 400 (read error, empty body, undecodable or empty batch) or 413 (body
\* cut) has no event handed to the sink, and every request gets exactly one of
\* the statuses 405, 400, 413 and 202.
SinkOnlyForAccepted ==
  \A s \in Conns :
    LET c == conn[s]
    IN c.pc # "idle" =>
         /\ c.pc \in {"capture", "done"}
         /\ c.pc = "capture" => c.writes = 0 /\ c.status = 0
         /\ c.pc = "done" =>
              /\ c.writes = 1
              /\ c.status \in {StatusMethodNotAllowed, StatusBadRequest,
                               StatusRequestEntityTooLarge, StatusAccepted}
              /\ c.status # StatusAccepted => c.captured = <<>>
              /\ c.status = StatusAccepted => c.captured # <<>>
              /\ c.status = StatusMethodNotAllowed <=> c.req.method # "POST"
              /\ c.status = StatusRequestEntityTooLarge => c.read.called /\ c.read.tooLarge
              /\ c.status = StatusBadRequest =>
                   /\ c.read.called
                   /\ \/ c.read.err
                      \/ Len(c.read.body) = 0
                      \/ c.handler # "handleIngest" /\ c.decodes = 1 /\ c.events = <<>>

\* A batch of two events was captured with no identifier returned, and answered 202.
BatchAcceptedWithoutIDs ==
  \E s \in Conns :
    /\ conn[s].pc = "done" /\ conn[s].handler = "handleFastly"
    /\ conn[s].status = StatusAccepted /\ Len(conn[s].captured) = 2
    /\ conn[s].eventIDs = <<>>

\* C3: for a POST whose body is read without error the response is 413 if and
\* only if the body is longer than the byte ceiling, whatever the content type
\* and whether or not the body would decode: a body that is too long is never
\* answered 400 and never decoded, a body within the ceiling is never answered 413.
TooLargeIffOverCeiling ==
  \A s \in Conns :
    LET c == conn[s]
    IN (c.pc # "idle" /\ c.req.method = "POST" /\ c.read.called /\ ~c.read.err) =>
         /\ c.status = StatusRequestEntityTooLarge <=> Len(c.req.body.data) > Ceiling(c)
         /\ Len(c.req.body.data) > Ceiling(c) =>
              c.pc = "done" /\ c.decodes = 0 /\ c.captured = <<>>

\* A body one byte over the ceiling, whose first bytes are a JSON object, was
\* answered 413 undecoded.
ValidJSONOverCeiling ==
  \E s \in Conns :
    /\ conn[s].pc = "done" /\ conn[s].handler = "handleIngest"
    /\ conn[s].req.body.data = "{} " /\ conn[s].maxBodyBytes = Len("{}")
    /\ conn[s].req.contentType = "application/json"
    /\ conn[s].status = StatusRequestEntityTooLarge /\ conn[s].decodes = 0

(***************************************************************************)
(* The generic path.  Readable(c): the request of c is a POST whose body   *)
(* is not empty, arrives without a read error and is within a ceiling      *)
(* below the greatest int64.                                               *)
(***************************************************************************)

Readable(c) ==
  /\ c.req.method = "POST" /\ c.read.called /\ ~c.read.err
  /\ Len(c.req.body.data) > 0 /\ Len(c.req.body.data) <= Ceiling(c)
  /\ Ceiling(c) < MaxInt64

\* C4: on the generic path a decode failure is no rejection: for a POST body that
\* is not empty and within the ceiling, if the content type does not contain
\* "application/json" in any letter case or the body is not JSON of the payload's
\* shape, the handler answers 202 and hands the sink one event whose message is
\* the body text and whose severity is info; nothing of a partly decoded
\* payload is used.
DecodeFailureFallsBackToBody ==
  \A s \in Conns :
    LET c == conn[s]
    IN (/\ c.pc # "idle" /\ c.handler = "handleIngest" /\ Readable(c)
        /\ \/ ~Contains(ToLower(c.req.contentType), "application/json")
           \/ UnmarshalPayload(c.req.body.data).err) =>
         /\ c.event.Message = c.req.body.data
         /\ c.event.Level = LevelInfo
         /\ c.event.Tags = [remote_addr |-> c.req.remoteAddr, method |-> c.req.method,
                            path |-> c.req.path]
         /\ c.event.Extra = [isNil |-> FALSE,
                             kv |-> [raw |-> [k |-> "str", s |-> c.req.body.data]]]
         /\ c.pc = "done" => c.status = StatusAccepted /\ c.captured = <<c.event>>

\* A JSON body whose level has the wrong type, after a message that decoded, was
\* accepted with the body as the message.
MismatchedLevelAccepted ==
  \E s \in Conns :
    /\ conn[s].pc = "done" /\ conn[s].handler = "handleIngest"
    /\ conn[s].req.contentType = "Application/JSON; charset=utf-8"
    /\ conn[s].req.body.data = "{\"message\":\"m\",\"level\":5}"
    /\ conn[s].status = StatusAccepted /\ Len(conn[s].captured) = 1
    /\ conn[s].captured[1].Message = "{\"message\":\"m\",\"level\":5}"

\* C7: every accepted generic request (POST, body not empty and within the
\* ceiling) hands exactly one event to the sink and is answered 202 whatever the
\* sink returns; the response has the body {"event_id": id} if and only if the
\* sink returned an identifier that is present and not empty, and no body otherwise.
IngestAcceptedWhateverSinkReturns ==
  \A s \in Conns :
    LET c == conn[s]
    IN (c.pc # "idle" /\ c.handler = "handleIngest" /\ Readable(c)) =>
         /\ c.pc = "capture" => c.captured = <<>>
         /\ c.pc = "done" =>
              /\ c.status = StatusAccepted
              /\ Len(c.captured) = 1 /\ Len(c.returned) = 1
              /\ IF ~c.returned[1].isNil /\ c.returned[1].id # ""
                 THEN /\ c.respBody = "{\"event_id\":\"" \o c.returned[1].id \o "\"}"
                      /\ c.ctype = "application/json"
                 ELSE c.respBody = "" /\ c.ctype = ""

\* The sink returned a present but empty identifier and the answer was a bare 202.
IngestEmptyIdentifier ==
  \E s \in Conns :
    /\ conn[s].pc = "done" /\ conn[s].handler = "handleIngest"
    /\ conn[s].status = StatusAccepted /\ Len(conn[s].captured) = 1
    /\ conn[s].returned = <<[isNil |-> FALSE, id |-> ""]>>
    /\ conn[s].respBody = ""

(***************************************************************************)
(* The edge-event path.                                                    *)
(***************************************************************************)

\* The identifiers of rets that are present and not empty, in order.
NonEmptyIDs(rets) ==
  LET kept == SelectSeq(rets, LAMBDA ret : ~ret.isNil /\ ret.id # "")
  IN [k \in 1..Len(kept) |-> kept[k].id]

\* C5: on the edge-event path the handler answers 400 and submits nothing exactly
\* when the body decodes neither as one event object nor as an array of event
\* objects, or decodes to an empty array; otherwise the object is tried first and
\* gives a sequence of one event, an array of n >= 1 objects gives n events in the
\* order of the input, and the sink is called once for each decoded event.
EdgeBatchDecoding ==
  LET Decoded(c, body, single, multiple) ==
        IF single.err /\ (multiple.err \/ Len(multiple.v) = 0)
        THEN c.pc = "done" /\ c.status = StatusBadRequest /\ c.captured = <<>>
        ELSE /\ c.events = IF ~single.err THEN <<single.v>> ELSE multiple.v
             /\ Len(c.events) >= 1
             /\ body = "[{\"host\":\"a\"},{\"host\":\"b\"}]" =>
                  Len(c.events) = 2 /\ c.events[1].Host = "a" /\ c.events[2].Host = "b"
             /\ Len(c.captured) = c.i - 1
             /\ \A k \in 1..Len(c.captured) :
                  c.captured[k].Extra.kv.fastly = [k |-> "struct", v |-> c.events[k]]
             /\ c.pc = "done" =>
                  c.status = StatusAccepted /\ Len(c.captured) = Len(c.events)
      Served(c) ==
        (/\ c.pc # "idle" /\ c.handler \in {"handleFastly", "HandleEvents"}
         /\ c.req.method = "POST" /\ c.read.called /\ ~c.read.err
         /\ Len(c.req.body.data) <= Ceiling(c) /\ Ceiling(c) < MaxInt64) =>
          Decoded(c, c.req.body.data, UnmarshalEvent(c.req.body.data),
                  UnmarshalEvents(c.req.body.data))
  IN \A s \in Conns : Served(conn[s])

\* The body null decoded as one event with no field set and was captured.
NullBodyIsOneEvent ==
  \E s \in Conns :
    /\ conn[s].pc = "done" /\ conn[s].handler = "handleFastly"
    /\ conn[s].req.body.data = "null" /\ conn[s].status = StatusAccepted
    /\ conn[s].events = <<ZeroFastlyEvent>> /\ Len(conn[s].captured) = 1

\* C6: a batch of edge events is answered 202 with an event_ids sequence that is
\* the identifiers the sink returned that are not empty, in the order of
\* submission: a submission that returns no identifier or an empty one is left
\* out, does not keep the remaining events from being submitted and does not
\* change the 202.
EventIDsAreReturnedIDsInOrder ==
  \A s \in Conns :
    LET c == conn[s]
    IN (/\ c.pc # "idle" /\ c.handler \in {"handleFastly", "HandleEvents"}
        /\ c.events # <<>>) =>
         /\ Len(c.returned) = Len(c.captured)
         /\ c.eventIDs = NonEmptyIDs(c.returned)
         /\ c.pc = "capture" <=> Len(c.captured) < Len(c.events)
         /\ c.pc = "done" =>
              /\ c.status = StatusAccepted
              /\ Len(c.captured) = Len(c.events)
              /\ c.ctype = "application/json"
              /\ c.respBody = MarshalEventIDs(NonEmptyIDs(c.returned))

\* Of three events the first got an identifier, the second none and the third
\* another identifier; both identifiers are in the response, in that order.
BatchWithNilInTheMiddle ==
  \E s \in Conns :
    /\ conn[s].pc = "done" /\ conn[s].handler = "HandleEvents"
    /\ conn[s].status = StatusAccepted /\ Len(conn[s].captured) = 3
    /\ conn[s].returned = <<[isNil |-> FALSE, id |-> "b2"], [isNil |-> TRUE, id |-> ""],
                            [isNil |-> FALSE, id |-> "a1"]>>
    /\ conn[s].respBody = "{\"event_ids\":[\"b2\",\"a1\"]}"

(***************************************************************************)
(* The events the sink is given.                                           *)
(***************************************************************************)

\* C8: every event handed to the sink, on the generic path and by both edge
\* translators, has a message that is not empty, also for a payload without a
\* message and for an edge event without outcome, status and reason.
EveryEventHasAMessage ==
  \A s \in Conns :
    LET c == conn[s]
    IN c.pc # "idle" =>
         /\ \A k \in 1..Len(c.captured) : c.captured[k].Message # ""
         /\ (c.pc = "capture" /\ c.handler = "handleIngest") => c.event.Message # ""

\* An edge event with no field set was captured by handleFastly as "FASTLY".
BareEdgeEventCaptured ==
  \E s \in Conns :
    /\ conn[s].pc = "done" /\ conn[s].handler = "handleFastly"
    /\ conn[s].events = <<ZeroFastlyEvent>> /\ Len(conn[s].captured) = 1
    /\ conn[s].captured[1].Message = "FASTLY"

\* C9: no event handed to the sink has a tag whose value is the empty string, on
\* the generic path (base tags and payload tags) and on the edge-event path
\* (host, response_state, request_method, request_protocol, fastly_server, the
\* optional tags and remote_addr), for every input.
NoEmptyTagValue ==
  \A s \in Conns :
    LET c == conn[s]
    IN c.pc # "idle" =>
         \A k \in 1..Len(c.captured) :
           \A key \in DOMAIN c.captured[k].Tags : c.captured[k].Tags[key] # ""

\* The part of C9 about the generic path: no tag of its events is empty.
NoEmptyTagValueOnGenericPath ==
  \A s \in Conns :
    LET c == conn[s]
    IN (c.pc # "idle" /\ c.handler = "handleIngest") =>
         \A k \in 1..Len(c.captured) :
           \A key \in DOMAIN c.captured[k].Tags : c.captured[k].Tags[key] # ""

\* An edge event that names no host was captured with the tag host set to "".
EmptyHostTagCaptured ==
  \E s \in Conns :
    /\ conn[s].pc = "done" /\ conn[s].handler = "HandleEvents"
    /\ conn[s].req.body.data = "{\"timestamp\":\"2026-01-29T11:41:12+0000\",\"response_state\":\"ERROR\",\"response_status\":503,\"response_reason\":\"origin timeout\"}"
    /\ Len(conn[s].captured) = 1 /\ conn[s].captured[1].Tags["host"] = ""

(***************************************************************************)
(* mapFastlyLevel and mapLevel on their own: the outcome words and other   *)
(* strings, in four letter cases, with white space around them, with       *)
(* status codes on both sides of 400 and 500.                              *)
(***************************************************************************)

OutcomeWords == {"error", "fail", "failed", "warning", "warn"}

OtherOutcomes == {"", "ok", "errors", "miss", "5xx"}

OutcomePads == {"", " ", "\t\n"}

StatusCodes == {-1, 0, 200, 399, 400, 404, 499, 500, 503}

EdgeLevelCallsOf(w) ==
  {[fn |-> "mapLevel", pkg |-> "", base |-> w, arg |-> l \o form \o r, status |-> st,
    done |-> FALSE, ret |-> ""] :
     form \in LetterCases(w), l \in OutcomePads, r \in OutcomePads, st \in StatusCodes}

EdgeLevelCalls == UNION {EdgeLevelCallsOf(w) : w \in OutcomeWords \cup OtherOutcomes}

\* The edge event a call classifies.
EdgeLevelEvent(c) ==
  [ZeroFastlyEvent EXCEPT !.ResponseState = c.arg, !.ResponseStatus = c.status]

InitEdgeLevel == conn = [s \in Conns |-> Idle] /\ call \in EdgeLevelCalls

\* mapFastlyLevel of package main is called.
ClassifyMain ==
  /\ call.fn = "mapLevel" /\ ~call.done
  /\ call' = [call EXCEPT !.done = TRUE, !.pkg = "main",
                          !.ret = mapFastlyLevel(EdgeLevelEvent(call))]
  /\ UNCHANGED conn

\* mapLevel of package fastly is called.
ClassifyFastly ==
  /\ call.fn = "mapLevel" /\ ~call.done
  /\ call' = [call EXCEPT !.done = TRUE, !.pkg = "fastly",
                          !.ret = fastly_mapLevel(EdgeLevelEvent(call))]
  /\ UNCHANGED conn

NextEdgeLevel == ClassifyMain \/ ClassifyFastly

SpecEdgeLevel == InitEdgeLevel /\ [][NextEdgeLevel]_vars

\* C11: on the edge-event path the outcome string decides the severity whenever
\* it is a known word, in any letter case and trimmed: error, fail and failed
\* give error and warning and warn give warning whatever the status code is; only
\* when the outcome is no known word the status code decides, with 500 and more
\* error, 400 to 499 warning and anything lower, 0 and negative included, info.
OutcomeBeforeStatus ==
  (call.fn = "mapLevel" /\ call.done) =>
    call.ret = (CASE call.base \in {"error", "fail", "failed"} -> "error"
                  [] call.base \in {"warning", "warn"} -> "warning"
                  [] call.status >= 500 -> "error"
                  [] call.status >= 400 /\ call.status <= 499 -> "warning"
                  [] OTHER -> "info")

\* The outcome " Warn\t\n" with status 503 was classified as warning by package main.
WarnOutcomeWithServerError ==
  /\ call.fn = "mapLevel" /\ call.done /\ call.pkg = "main"
  /\ call.arg = " Warn\t\n" /\ call.status = 503 /\ call.ret = "warning"

(***************************************************************************)
(* The decoded payload on the generic path.  Decoded(c): the request of c  *)
(* was accepted and parsePayload decoded its body.                         *)
(***************************************************************************)

Decoded(c) ==
  /\ c.pc # "idle" /\ c.handler = "handleIngest" /\ c.decodes = 1
  /\ Contains(ToLower(c.req.contentType), "application/json")

\* C12: on the generic path with a decoded payload the event's tags contain every
\* payload tag whose key and value are both not empty, with the payload's value,
\* and no payload tag whose key or value is empty, and the event's extras contain
\* every entry of the payload's extras unchanged.
PayloadTagsAndExtrasKept ==
  LET Kept(c, p) ==
        ~p.err =>
          /\ \A key \in DOMAIN p.v.Tags.kv :
               IF key # "" /\ p.v.Tags.kv[key] # ""
               THEN key \in DOMAIN c.event.Tags /\ c.event.Tags[key] = p.v.Tags.kv[key]
               ELSE ~(key \in DOMAIN c.event.Tags /\ c.event.Tags[key] = p.v.Tags.kv[key])
          /\ \A key \in DOMAIN p.v.Extra.kv :
               /\ key \in DOMAIN c.event.Extra.kv
               /\ c.event.Extra.kv[key] = p.v.Extra.kv[key]
  IN \A s \in Conns : Decoded(conn[s]) => Kept(conn[s], UnmarshalPayload(conn[s].req.body.data))

\* What holds of C12: the tags, and the extras under every key but payload_timestamp.
PayloadTagsAndOtherExtrasKept ==
  LET Kept(c, p) ==
        ~p.err =>
          /\ \A key \in DOMAIN p.v.Tags.kv :
               IF key # "" /\ p.v.Tags.kv[key] # ""
               THEN key \in DOMAIN c.event.Tags /\ c.event.Tags[key] = p.v.Tags.kv[key]
               ELSE ~(key \in DOMAIN c.event.Tags /\ c.event.Tags[key] = p.v.Tags.kv[key])
          /\ \A key \in (DOMAIN p.v.Extra.kv) \ {"payload_timestamp"} :
               /\ key \in DOMAIN c.event.Extra.kv
               /\ c.event.Extra.kv[key] = p.v.Extra.kv[key]
  IN \A s \in Conns : Decoded(conn[s]) => Kept(conn[s], UnmarshalPayload(conn[s].req.body.data))

\* A payload with a timestamp and an extra entry named payload_timestamp was
\* captured; the entry holds the timestamp, not the payload's value.
PayloadTimestampEntryReplaced ==
  \E s \in Conns :
    /\ conn[s].pc = "done" /\ conn[s].handler = "handleIngest"
    /\ conn[s].req.contentType = "application/json"
    /\ conn[s].req.body.data
         = "{\"timestamp\":\"t1\",\"extra\":{\"payload_timestamp\":\"mine\",\"x\":null}}"
    /\ Len(conn[s].captured) = 1
    /\ conn[s].captured[1].Extra.kv["payload_timestamp"] = [k |-> "str", s |-> "t1"]

EdgeTimestamps(c) ==
  LET Stamped(event, k, fe, ts) ==
        /\ event.Timestamp = IF ~ts.err THEN ts.t ELSE ClockTime(k - 1)
        /\ event.Extra.kv["fastly_timestamp"] = [k |-> "str", s |-> fe.Timestamp]
  IN \A k \in 1..Len(c.captured) :
       Stamped(c.captured[k], k, c.events[k], parseFastlyTimestamp(c.events[k].Timestamp))

\* C14: on the edge-event path the timestamp of each event's record is the parsed
\* timestamp of the event when its string parses in the producer's format and
\* the submission time when it is empty or does not parse; either way the string
\* is kept as it came in the extras; this holds in both translators.
EdgeTimestampParsedOrSubmission ==
  \A s \in Conns :
    (conn[s].pc # "idle" /\ conn[s].handler \in {"handleFastly", "HandleEvents"}) =>
      EdgeTimestamps(conn[s])

\* What holds of C14: the translator of package main.
EdgeTimestampInPackageMain ==
  \A s \in Conns :
    (conn[s].pc # "idle" /\ conn[s].handler = "handleFastly") => EdgeTimestamps(conn[s])

\* Handler.HandleEvents captured an event whose timestamp parses; the record
\* has the clock's time.
ParsableTimestampNotUsed ==
  \E s \in Conns :
    /\ conn[s].pc = "done" /\ conn[s].handler = "HandleEvents"
    /\ Len(conn[s].captured) = 1
    /\ conn[s].events[1].Timestamp = "2026-01-29T11:41:12+0000"
    /\ ~parseFastlyTimestamp(conn[s].events[1].Timestamp).err
    /\ conn[s].captured[1].Timestamp = ClockTime(0)

(***************************************************************************)
(* The process (main, src/main.go:59-96): the server's handlers run on the *)
(* connections in Workers while main waits in ListenAndServe; a goroutine  *)
(* waits for the signal and calls srv.Shutdown; main calls sentry.Flush as *)
(* soon as ListenAndServe has returned and exits after it.  The process is *)
(*   pc        "serving" (in ListenAndServe), "flushing" (in sentry.Flush) *)
(*             or "exited"                                                 *)
(*   signal    whether ctx.Done() is closed                                *)
(*   shutdown  "waiting" (for the signal), "draining" (srv.Shutdown has    *)
(*             closed the listener and waits for the connections) or       *)
(*             "returned"                                                  *)
(*   sinkWhileFlushing  whether a handler called the sink after Flush began*)
(***************************************************************************)

Workers == {"c1", "c2"}

ProcessJobs ==
  {Job("handleIngest", Request(m, "text/plain", Stream("hello")), MinMaxBodyBytes) :
     m \in {"POST", "GET"}}
  \cup {Job("handleFastly",
            Request("POST", "application/json", Stream("[{\"host\":\"a\"},{\"host\":\"b\"}]")),
            MinMaxBodyBytes)}

InitProcess ==
  /\ conn = [s \in Workers |-> Idle]
  /\ call = [fn |-> "main", pc |-> "serving", signal |-> FALSE, shutdown |-> "waiting",
             sinkWhileFlushing |-> FALSE]

\* The listener accepts a request and the mux starts its handler (src/main.go:66-72).
Accept(s) ==
  /\ call.pc = "serving" /\ call.shutdown = "waiting"
  /\ conn[s].pc = "idle"
  /\ \E j \in ProcessJobs :
       conn' = [conn EXCEPT ![s] = IF j.handler = "handleIngest"
                                   THEN handleIngestStart(j.r, j.maxBodyBytes)
                                   ELSE handleFastlyStart(j.r, j.maxBodyBytes)]
  /\ UNCHANGED call

\* A handler's call of sentry.CaptureEvent returns (src/main.go:220, 266).
Submit(s) ==
  /\ call.pc # "exited"
  /\ conn[s].pc = "capture"
  /\ \E ret \in SinkReturns :
       conn' = [conn EXCEPT ![s] = IF conn[s].handler = "handleIngest"
                                   THEN handleIngestFinish(conn[s], ret)
                                   ELSE handleFastlyTurn(conn[s], ret)]
  /\ call' = [call EXCEPT !.sinkWhileFlushing = @ \/ call.pc = "flushing"]

\* A handler returns and its connection is idle again.
Return(s) ==
  /\ call.pc # "exited"
  /\ conn[s].pc = "done"
  /\ conn' = [conn EXCEPT ![s] = Idle]
  /\ UNCHANGED call

\* SIGINT or SIGTERM arrives: ctx.Done() is closed (src/main.go:80).
Signal ==
  /\ call.pc # "exited" /\ ~call.signal
  /\ call' = [call EXCEPT !.signal = TRUE]
  /\ UNCHANGED conn

\* The goroutine calls srv.Shutdown, which closes the listener (src/main.go:83-88).
CallShutdown ==
  /\ call.pc # "exited" /\ call.signal /\ call.shutdown = "waiting"
  /\ call' = [call EXCEPT !.shutdown = "draining"]
  /\ UNCHANGED conn

\* srv.Shutdown returns: every connection is idle, or shutdownGrace has passed.
ShutdownReturns ==
  /\ call.pc # "exited" /\ call.shutdown = "draining"
  /\ call' = [call EXCEPT !.shutdown = "returned"]
  /\ UNCHANGED conn

\* ListenAndServe returns http.ErrServerClosed once Shutdown was called, and main
\* calls sentry.Flush (src/main.go:91-95).
BeginFlush ==
  /\ call.pc = "serving" /\ call.shutdown # "waiting"
  /\ call' = [call EXCEPT !.pc = "flushing"]
  /\ UNCHANGED conn

\* sentry.Flush returns and main with it: the process and its handlers end.
Exit ==
  /\ call.pc = "flushing"
  /\ call' = [call EXCEPT !.pc = "exited"]
  /\ UNCHANGED conn

NextProcess ==
  \/ \E s \in Workers : Accept(s) \/ Submit(s) \/ Return(s)
  \/ Signal
  \/ CallShutdown
  \/ ShutdownReturns
  \/ BeginFlush
  \/ Exit

SpecProcess == InitProcess /\ [][NextProcess]_vars

\* C15: at shutdown the flush starts only after every handler in flight has
\* finished its sink submission, and no handler calls the sink after the flush
\* has begun, for every interleaving of the signal, the Shutdown call, the
\* return of ListenAndServe and the handlers.
FlushAfterEverySubmission ==
  call.fn = "main" =>
    /\ call.pc = "flushing" => \A s \in Workers : conn[s].pc # "capture"
    /\ ~call.sinkWhileFlushing

\* A handler handed its event to the sink while main was in sentry.Flush.
SubmittedWhileFlushing ==
  /\ call.fn = "main" /\ call.pc = "flushing" /\ call.sinkWhileFlushing
  /\ \E s \in Workers : conn[s].pc = "done" /\ Len(conn[s].captured) = 1

\* What holds at shutdown: no request is accepted once Shutdown was called.
NoAcceptAfterShutdown ==
  [][\A s \in Workers :
       (conn[s].pc = "idle" /\ conn'[s].pc # "idle") => call.shutdown = "waiting"]_vars

(***************************************************************************)
(* fastly.ChallengeHandler (src/main.go:595-612) under concurrent requests.*)
(* The returned closure assigns its captured parameter serviceID on every  *)
(* request, and nothing orders the handlers of concurrent requests, so the *)
(* variable is shared.  A Go string variable is two words, a data pointer  *)
(* and a length; an assignment stores them one after the other, in an order*)
(* the compiler chooses, and a load that falls between the two stores sees *)
(* one word of each value.  The variable is                                *)
(*   memory      the bytes of the configured string and the byte after it  *)
(*   configured  the string ChallengeHandler was called with               *)
(*   ptr, len    the two words of serviceID                                *)
(* and a request is                                                        *)
(*   pc       "trim", "store", "respond", "done"                           *)
(*   h        the words of strings.TrimSpace(serviceID) it computed        *)
(*   stored   the words of serviceID it has stored                         *)
(*   accessed, wrote   whether it has loaded or stored serviceID           *)
(***************************************************************************)

StatusOK == 200
StatusNotFound == 404

ServiceIDs == {"s", " s", "s ", " "}

\* hex.EncodeToString(sha256.Sum256(v)): the digest is kept as a term over v,
\* so two digests are equal exactly when the strings are.
Sha256Hex(v) == "sha256(" \o v \o ")"

\* The string a pointer word and a length word denote.
StringAt(memory, ptr, len) == SubSeq(memory, ptr + 1, ptr + len)

\* The words of strings.TrimSpace(v), a substring of v that shares its bytes.
TrimSpaceWords(memory, ptr, len) ==
  LET v == StringAt(memory, ptr, len)
  IN  [ptr |-> ptr + (Len(v) - Len(TrimLeft(v))), len |-> Len(TrimSpace(v))]

\* The response of one request handled with no other request in flight.
ChallengeAlone(method, serviceID) ==
  IF method # "GET" THEN [status |-> StatusMethodNotAllowed, respBody |-> ""]
  ELSE IF TrimSpace(serviceID) = "" THEN [status |-> StatusNotFound, respBody |-> ""]
  ELSE [status |-> StatusOK, respBody |-> Sha256Hex(TrimSpace(serviceID)) \o "\n"]

InitChallenge ==
  /\ conn = [s \in Workers |-> Idle]
  /\ \E id \in ServiceIDs, beyond \in {"?", " "} :
       call = [fn |-> "ChallengeHandler", configured |-> id, memory |-> id \o beyond,
               ptr |-> 0, len |-> Len(id)]

\* The method test (src/main.go:597-600).
ChallengeStart(s) ==
  /\ call.fn = "ChallengeHandler" /\ conn[s].pc = "idle"
  /\ \E method \in {"GET", "POST"} :
       conn' = [conn EXCEPT ![s] =
                  [pc |-> IF method = "GET" THEN "trim" ELSE "done", method |-> method,
                   h |-> [ptr |-> 0, len |-> 0], stored |-> {},
                   accessed |-> FALSE, wrote |-> FALSE,
                   status |-> IF method = "GET" THEN 0 ELSE StatusMethodNotAllowed,
                   respBody |-> ""]]
  /\ UNCHANGED call

\* The right-hand side of line 601: load serviceID and trim it.
ChallengeTrim(s) ==
  /\ call.fn = "ChallengeHandler" /\ conn[s].pc = "trim"
  /\ conn' = [conn EXCEPT ![s].pc = "store", ![s].accessed = TRUE,
                          ![s].h = TrimSpaceWords(call.memory, call.ptr, call.len)]
  /\ UNCHANGED call

\* The assignment of line 601: one word of serviceID is stored in each step.
ChallengeStore(s) ==
  /\ call.fn = "ChallengeHandler" /\ conn[s].pc = "store"
  /\ \E word \in {"ptr", "len"} \ conn[s].stored :
       /\ call' = IF word = "ptr" THEN [call EXCEPT !.ptr = conn[s].h.ptr]
                                  ELSE [call EXCEPT !.len = conn[s].h.len]
       /\ conn' = [conn EXCEPT ![s].stored = @ \cup {word}, ![s].wrote = TRUE,
                               ![s].pc = IF conn[s].stored = {} THEN "store" ELSE "respond"]

\* Lines 602-610: the test for the empty string, the digest and the response.
\* The value is the one just stored, kept in registers, or serviceID loaded again.
ChallengeRespond(s) ==
  /\ call.fn = "ChallengeHandler" /\ conn[s].pc = "respond"
  /\ \E w \in {conn[s].h, [ptr |-> call.ptr, len |-> call.len]} :
       LET serviceID == StringAt(call.memory, w.ptr, w.len)
       IN  conn' = [conn EXCEPT
                      ![s].pc = "done",
                      ![s].status = IF serviceID = "" THEN StatusNotFound ELSE StatusOK,
                      ![s].respBody = IF serviceID = "" THEN ""
                                      ELSE Sha256Hex(serviceID) \o "\n"]
  /\ UNCHANGED call

\* The handler returns.
ChallengeReturn(s) ==
  /\ call.fn = "ChallengeHandler" /\ conn[s].pc = "done"
  /\ conn' = [conn EXCEPT ![s] = Idle]
  /\ UNCHANGED call

NextChallenge ==
  \E s \in Workers :
    \/ ChallengeStart(s)
    \/ ChallengeTrim(s)
    \/ ChallengeStore(s)
    \/ ChallengeRespond(s)
    \/ ChallengeReturn(s)

SpecChallenge == InitChallenge /\ [][NextChallenge]_vars

\* C16: requests handled concurrently share no mutable state but the sink: no
\* variable written while handling one request is read or written while
\* handling another request in flight, and each response is the one the
\* request would get if it were handled alone.
ConcurrentRequestsShareNothing ==
  call.fn = "ChallengeHandler" =>
    /\ \A s, t \in Workers :
         (s # t /\ conn[s].pc # "idle" /\ conn[t].pc # "idle")
           => ~(conn[s].wrote /\ conn[t].accessed)
    /\ \A s \in Workers :
         conn[s].pc = "done" =>
           LET alone == ChallengeAlone(conn[s].method, call.configured)
           IN  conn[s].status = alone.status /\ conn[s].respBody = alone.respBody

\* A challenge request is answered 404 although the configured service
\* identifier is not blank: it took the pointer of one store and the length
\* of none.
ChallengeNotFoundForConfiguredID ==
  /\ call.fn = "ChallengeHandler" /\ TrimSpace(call.configured) # ""
  /\ \E s \in Workers :
       conn[s].pc = "done" /\ conn[s].method = "GET" /\ conn[s].status = StatusNotFound

\* What holds: a request that computed the words of the trimmed configured
\* string, with serviceID holding the same words, is answered as alone.
ChallengeAloneFromConfigured ==
  call.fn = "ChallengeHandler" =>
    \A s \in Workers :
      (conn[s].pc = "done" /\ call.ptr = TrimSpaceWords(call.memory, 0, Len(call.configured)).ptr
         /\ call.len = TrimSpaceWords(call.memory, 0, Len(call.configured)).len
         /\ conn[s].h = [ptr |-> call.ptr, len |-> call.len])
        => LET alone == ChallengeAlone(conn[s].method, call.configured)
           IN  conn[s].status = alone.status /\ conn[s].respBody = alone.respBody

\* C17: every event of the generic path has the base tags remote_addr, method and
\* path, and they carry the request's remote address, method and URL path,
\* whatever tags the decoded payload supplies.
BaseTagsCarryTheRequest ==
  \A s \in Conns :
    LET c == conn[s]
    IN (c.pc # "idle" /\ c.handler = "handleIngest") =>
         \A k \in 1..Len(c.captured) :
           /\ {"remote_addr", "method", "path"} \subseteq DOMAIN c.captured[k].Tags
           /\ c.captured[k].Tags["remote_addr"] = c.req.remoteAddr
           /\ c.captured[k].Tags["method"] = c.req.method
           /\ c.captured[k].Tags["path"] = c.req.path

\* What holds of C17: the three base tags are present, and each carries the
\* request's value unless the payload has a tag of that name with a value that
\* is not empty.
BaseTagsPresent ==
  LET Base(c, p, ev) ==
        LET Own(key) == ~p.err /\ key \in DOMAIN p.v.Tags.kv /\ p.v.Tags.kv[key] # ""
            json == Contains(ToLower(c.req.contentType), "application/json")
        IN /\ {"remote_addr", "method", "path"} \subseteq DOMAIN ev.Tags
           /\ (~json \/ ~Own("remote_addr")) => ev.Tags["remote_addr"] = c.req.remoteAddr
           /\ (~json \/ ~Own("method")) => ev.Tags["method"] = c.req.method
           /\ (~json \/ ~Own("path")) => ev.Tags["path"] = c.req.path
  IN \A s \in Conns :
       (conn[s].pc # "idle" /\ conn[s].handler = "handleIngest" /\ Len(conn[s].captured) = 1)
         => Base(conn[s], UnmarshalPayload(conn[s].req.body.data), conn[s].captured[1])

\* A payload tag named remote_addr replaced the request's remote address in a
\* captured event, while its empty tag method left the request's method.
RemoteAddrTagReplaced ==
  \E s \in Conns :
    LET c == conn[s]
    IN /\ c.pc = "done" /\ c.handler = "handleIngest" /\ Len(c.captured) = 1
       /\ c.captured[1].Tags["remote_addr"] = "spoofed"
       /\ c.req.remoteAddr # "spoofed"
       /\ c.captured[1].Tags["method"] = c.req.method

====
